---- MODULE Spec2Model ----
(***************************************************************************)
(* NodeWriter (pkg/daemon/writer.go): a single goroutine, Run, that        *)
(* serialises annotation updates of a Node.  Callers (SetDone, SetWorking, *)
(* SetUnreconcilable, SetDegraded, SetSSHAccessed) build a message, send   *)
(* it on the buffered channel nw.writer and wait on a one-slot response    *)
(* channel.  Run receives one message at a time and calls                  *)
(* setNodeAnnotations -> updateNodeRetry, which reads the node from the    *)
(* lister (an informer cache that may lag the API server), applies the     *)
(* annotations to a copy, sends the two-way merge patch, and retries on    *)
(* conflict under retry.DefaultBackoff.                                    *)
(***************************************************************************)
EXTENDS Integers, Sequences, FiniteSets, TLC

(* ------------------------------------------------------------------ *)
(* Bounds of the model                                                  *)
(* ------------------------------------------------------------------ *)

\* Number of goroutines that each make one Set* call.
NumCallers == 3

\* Capacity of nw.writer.  The source sets defaultWriterQueue = 25
\* (writer.go:19); the model keeps the name and scales the capacity down so
\* that a full channel is reached with NumCallers callers.
defaultWriterQueue == 2

\* retry.DefaultBackoff.Steps (k8s.io/client-go/util/retry): the number of
\* times RetryOnConflict runs its function before giving up.
Steps == 4

Callers == 1 .. NumCallers

(* ------------------------------------------------------------------ *)
(* Nodes and annotations                                                *)
(* ------------------------------------------------------------------ *)

\* constants.MachineConfigDaemonStateAnnotationKey
StateKey == "state"
\* constants.CurrentMachineConfigAnnotationKey
CurrentConfigKey == "currentConfig"
\* machineConfigDaemonSSHAccessAnnotationKey
SSHKey == "ssh"
\* An annotation this writer never names (written by another controller).
DesiredConfigKey == "desiredConfig"

Keys == {StateKey, CurrentConfigKey, SSHKey, DesiredConfigKey}

\* The value of a key that is not in the map.
Absent == "absent"

StateDone == "Done"
StateWorking == "Working"
StateUnreconcilable == "Unreconcilable"
StateDegraded == "Degraded"
\* machineConfigDaemonSSHAccessValue
SSHAccessed == "accessed"

\* Values of the dcAnnotation argument of SetDone.
Configs == {"cfg1"}

\* Values another controller gives the annotation it owns.
DesiredConfigs == {"cfg2"}

\* The name of the node the daemon runs on.
NodeName == "node1"

\* A node's Annotations map: key -> value, Absent for a key not in the map.
Annotations == [Keys -> {Absent, StateDone, StateWorking, StateUnreconcilable,
                         StateDegraded, SSHAccessed} \cup Configs \cup DesiredConfigs]

\* A node decoded from JSON that has no annotation has a nil Annotations map
\* (the field is omitempty).
NoAnnotations == [k \in Keys |-> Absent]

AnnotationsNil(obj) == \A k \in Keys : obj[k] = Absent

\* The value of the *v1.Node variable `node` of updateNodeRetry when it holds
\* no named node: nil before the first Patch, and whatever Patch returned with
\* an error (nil or a zero Node).
NoNode == [k \in Keys |-> "noNode"]

\* A patch that names no key.
EmptyPatch == [k \in {} |-> Absent]

(* ------------------------------------------------------------------ *)
(* The annotation maps of the five operations                           *)
(* ------------------------------------------------------------------ *)

SetDoneAnnos(dcAnnotation) == (StateKey :> StateDone) @@ (CurrentConfigKey :> dcAnnotation)

SetWorkingAnnos == (StateKey :> StateWorking)

SetUnreconcilableAnnos == (StateKey :> StateUnreconcilable)

SetDegradedAnnos == (StateKey :> StateDegraded)

SetSSHAccessedAnnos == (SSHKey :> SSHAccessed)

\* The operations a caller may invoke, with their arguments.
Ops == {[name |-> "SetDone", annos |-> SetDoneAnnos(cfg)] : cfg \in Configs}
       \cup {[name |-> "SetWorking", annos |-> SetWorkingAnnos],
             [name |-> "SetUnreconcilable", annos |-> SetUnreconcilableAnnos],
             [name |-> "SetDegraded", annos |-> SetDegradedAnnos],
             [name |-> "SetSSHAccessed", annos |-> SetSSHAccessedAnnos]}

\* type message; client and lister are shared by all callers (the API server
\* `store` and the informer cache `cache`), responseChannel is respChan[id].
Message(c, op) == [id |-> c, op |-> op.name, node |-> NodeName, annos |-> op.annos]

NoMessage == [id |-> 0, op |-> "none", node |-> NodeName, annos |-> SetWorkingAnnos]

(* ------------------------------------------------------------------ *)
(* Errors                                                               *)
(* ------------------------------------------------------------------ *)

Nil == [kind |-> "nil", subject |-> "", cause |-> "nil"]

\* The node name that formatting the variable `node` with %q puts in the
\* message: the name of the node Patch returned, none when the variable holds
\* no named node.
FormattedName(nodeVar) == IF nodeVar = NoNode THEN "" ELSE NodeName

\* fmt.Errorf("unable to update node %q: %v", node, err): the message names
\* what the variable `node` holds, and embeds the text of err.
UnableToUpdate(nodeVar, cause) ==
  [kind |-> "unableToUpdate", subject |-> FormattedName(nodeVar), cause |-> cause]

(* ------------------------------------------------------------------ *)
(* Pure steps of updateNodeRetry                                        *)
(* ------------------------------------------------------------------ *)

\* The closure of setNodeAnnotations: node.Annotations[k] = v for k, v in m.
SetAnnotations(obj, m) == [k \in Keys |-> IF k \in DOMAIN m THEN m[k] ELSE obj[k]]

\* Assigning to an entry of a nil map panics.
MutationPanics(obj, m) == AnnotationsNil(obj) /\ DOMAIN m # {}

\* Mutant of CreateTwoWayMergePatch: the whole mutated clone is sent, as an
\* Update of the node would.
WholeObjectPatch(oldNode, newNode) == newNode

\* strategicpatch.CreateTwoWayMergePatch(oldNode, newNode, v1.Node{}) on the
\* annotations: the keys whose value differs, with the new value (Absent: a
\* deletion).
CreateTwoWayMergePatch(oldNode, newNode) ==
  [k \in {x \in Keys : oldNode[x] # newNode[x]} |-> newNode[k]]

\* The API server applying a strategic merge patch to the stored node.
ApplyPatch(obj, patch) == [k \in Keys |-> IF k \in DOMAIN patch THEN patch[k] ELSE obj[k]]

(* ------------------------------------------------------------------ *)
(* State                                                                *)
(* ------------------------------------------------------------------ *)

VARIABLES
  store,        \* the node's annotations in the API server
  cache,        \* the node's annotations in the lister's informer cache
  writer,       \* nw.writer: the buffered channel of messages
  stop,         \* TRUE once the stop channel is closed
  runPc,        \* where Run is: select, get, patch, respond, returned, panicked
  msg,          \* Run's msg: the message being processed
  attempt,      \* the number of the current call of RetryOnConflict's function
  n,            \* updateNodeRetry's n: the snapshot the lister returned
  patchBytes,   \* updateNodeRetry's patchBytes
  node,         \* updateNodeRetry's node: the result of the last Patch
  err,          \* the error setNodeAnnotations returned
  callerPc,     \* per caller: idle, send, wait, returned
  callerMsg,    \* per caller: the message it built
  respChan,     \* per caller: its respChan, a channel of capacity 1
  pending,      \* history: ids sent on nw.writer and not yet answered, in send order
  inFlight,     \* history: ids Run received and has not yet answered, in receive order
  written,      \* history: per caller, the number of writes to its respChan
  lastNil,      \* history: the operation of the latest answer if it was nil, else "none"
  fetched,      \* history: the cache content at the latest lister.Get
  getCalls,     \* history: lister.Get calls made for msg
  patchCalls,   \* history: client.Patch calls made for msg
  lastPatch     \* history: the outcome of the latest Patch for msg

vars == <<store, cache, writer, stop, runPc, msg, attempt, n, patchBytes, node, err,
          callerPc, callerMsg, respChan, pending, inFlight, written, lastNil,
          fetched, getCalls, patchCalls, lastPatch>>

apiVars == <<store, cache>>

runVars == <<runPc, msg, attempt, n, patchBytes, node, err>>

callerVars == <<callerPc, callerMsg>>

histVars == <<fetched, getCalls, patchCalls, lastPatch>>

\* The nodes the API server may hold when the daemon starts: one without any
\* annotation, and one a previous run of the daemon left Degraded.
InitNodes ==
  {NoAnnotations,
   [NoAnnotations EXCEPT ![StateKey] = StateDegraded, ![CurrentConfigKey] = "cfg1"]}

\* NewNodeWriter, with the informer cache synced before Run starts.
Init ==
  /\ store \in InitNodes
  /\ cache = store
  /\ writer = << >>
  /\ stop = FALSE
  /\ runPc = "select"
  /\ msg = NoMessage
  /\ attempt = 0
  /\ n = NoAnnotations
  /\ patchBytes = EmptyPatch
  /\ node = NoNode
  /\ err = Nil
  /\ callerPc = [c \in Callers |-> "idle"]
  /\ callerMsg = [c \in Callers |-> NoMessage]
  /\ respChan = [c \in Callers |-> << >>]
  /\ pending = << >>
  /\ inFlight = << >>
  /\ written = [c \in Callers |-> 0]
  /\ lastNil = "none"
  /\ fetched = NoAnnotations
  /\ getCalls = 0
  /\ patchCalls = 0
  /\ lastPatch = "none"

\* The sequence q without the entries equal to x.
Without(q, x) == SelectSeq(q, LAMBDA y : y # x)

\* A panic in the Run goroutine ends the process, callers included.
Alive == runPc # "panicked"

(* ------------------------------------------------------------------ *)
(* The environment: the API server, the informer, the stop channel      *)
(* ------------------------------------------------------------------ *)

\* Another controller sets an annotation this writer never names.
ExternalUpdate ==
  /\ \E v \in DesiredConfigs :
       /\ store[DesiredConfigKey] # v
       /\ store' = [store EXCEPT ![DesiredConfigKey] = v]
  /\ UNCHANGED <<cache, writer, stop, runVars, callerVars, respChan,
                 pending, inFlight, written, lastNil, histVars>>

\* The informer delivers the node's current version to the lister's cache.
CacheSync ==
  /\ Alive
  /\ cache # store
  /\ cache' = store
  /\ UNCHANGED <<store, writer, stop, runVars, callerVars, respChan,
                 pending, inFlight, written, lastNil, histVars>>

\* The owner of the stop channel closes it.
CloseStop ==
  /\ Alive
  /\ ~stop
  /\ stop' = TRUE
  /\ UNCHANGED <<apiVars, writer, runVars, callerVars, respChan,
                 pending, inFlight, written, lastNil, histVars>>

(* ------------------------------------------------------------------ *)
(* Callers: SetDone, SetWorking, SetUnreconcilable, SetDegraded,        *)
(* SetSSHAccessed                                                       *)
(* ------------------------------------------------------------------ *)

\* A send on nw.writer proceeds only while the buffer has room.
CanSend(q) == Len(q) < defaultWriterQueue

\* Mutant of Unblocks: the blocked send gives up waiting for room once the
\* stop channel is closed.
UnblocksOnStop(q, stopped) == CanSend(q) \/ stopped

\* What ends a caller's wait in nw.writer <- message{...}: room in the buffer.
\* The send is a plain statement, not a select with the stop channel.
Unblocks(q, stopped) == CanSend(q)

\* A Set* call up to its send: it builds annos and the message, makes
\* respChan := make(chan error, 1), and sends the message on nw.writer if the
\* buffer has room; otherwise it blocks in the send.  Callers are goroutines
\* without identity: they are numbered in the order in which their calls begin.
Call(c) ==
  /\ Alive
  /\ callerPc[c] = "idle"
  /\ \A d \in Callers : d < c => callerPc[d] # "idle"
  /\ \E op \in Ops :
       IF CanSend(writer)
       THEN /\ writer' = Append(writer, Message(c, op))
            /\ pending' = Append(pending, c)
            /\ callerPc' = [callerPc EXCEPT ![c] = "wait"]
            /\ UNCHANGED callerMsg
       ELSE /\ callerMsg' = [callerMsg EXCEPT ![c] = Message(c, op)]
            /\ callerPc' = [callerPc EXCEPT ![c] = "send"]
            /\ UNCHANGED <<writer, pending>>
  /\ UNCHANGED <<apiVars, stop, runVars, respChan,
                 inFlight, written, lastNil, histVars>>

\* nw.writer <- message{...} of a caller that was blocked in the send.
Send(c) ==
  /\ Alive
  /\ callerPc[c] = "send"
  /\ Unblocks(writer, stop)
  /\ writer' = Append(writer, callerMsg[c])
  /\ pending' = Append(pending, c)
  /\ callerMsg' = [callerMsg EXCEPT ![c] = NoMessage]
  /\ callerPc' = [callerPc EXCEPT ![c] = "wait"]
  /\ UNCHANGED <<apiVars, stop, runVars, respChan,
                 inFlight, written, lastNil, histVars>>

\* return <-respChan: the call returns the error Head(respChan[c]).
Return(c) ==
  /\ Alive
  /\ callerPc[c] = "wait"
  /\ respChan[c] # << >>
  /\ respChan' = [respChan EXCEPT ![c] = Tail(respChan[c])]
  /\ callerPc' = [callerPc EXCEPT ![c] = "returned"]
  /\ UNCHANGED <<apiVars, writer, stop, runVars, callerMsg,
                 pending, inFlight, written, lastNil, histVars>>

(* ------------------------------------------------------------------ *)
(* Run, setNodeAnnotations, updateNodeRetry                             *)
(* ------------------------------------------------------------------ *)

\* Mutant of AtSelect: Run takes the next message while the Patch of the
\* current one is outstanding (the update handed to a goroutine of its own).
AtSelectOrPatching(pc) == pc \in {"select", "patch"}

\* Mutant of AtSelect: Run goes on receiving after it has returned.
AtSelectOrReturned(pc) == pc \in {"select", "returned"}

\* Run takes a case of its select only at the top of its for loop.
AtSelect(pc) == pc = "select"

\* Mutant of Receive: the newest message is taken first.
ReceiveNewest(q) == q[Len(q)]

\* A receive from nw.writer yields the oldest message in the buffer.
Receive(q) == Head(q)

\* Mutant of AfterReceive: the message is read and left in the buffer.
AfterPeek(q) == q

\* The buffer after the receive.
AfterReceive(q) == Tail(q)

\* Mutant of Snapshot: the node is read once, before the retry loop.
SnapshotOnce(att, previous, cached) == IF att > 1 THEN previous ELSE cached

\* lister.Get(nodeName) runs inside the function RetryOnConflict repeats, so
\* every attempt takes the snapshot the cache holds at that attempt.
Snapshot(att, previous, cached) == cached

\* Mutant of MayRetry: one call too many.
MayRetryOnceMore(att) == att <= Steps

\* wait.ExponentialBackoff: for i := 0; i < backoff.Steps; i++ -- after a
\* conflict the function runs again only while fewer than Steps calls were made.
MayRetry(att) == att < Steps

\* Where Run goes after msg.responseChannel <- err: the next iteration.
AfterRespond == "select"

\* Mutant of CanRespond: the response channel is unbuffered.
CanRespondUnbuffered(ch) == Len(ch) < 0

\* A send on a response channel proceeds only while its one slot is free.
CanRespond(ch) == Len(ch) < 1

\* The local state of Run outside the processing of a message.
RunIdle(pc) ==
  /\ runPc' = pc
  /\ msg' = NoMessage
  /\ attempt' = 0
  /\ n' = NoAnnotations
  /\ patchBytes' = EmptyPatch
  /\ node' = NoNode
  /\ err' = Nil
  /\ fetched' = NoAnnotations
  /\ getCalls' = 0
  /\ patchCalls' = 0
  /\ lastPatch' = "none"

\* updateNodeRetry returns (nil, "unable to update node ...") to
\* setNodeAnnotations, which returns it to Run.
Fail(cause) ==
  /\ runPc' = "respond"
  /\ err' = UnableToUpdate(node', cause)

\* case <-stop: return
RunStop ==
  /\ AtSelect(runPc)
  /\ stop
  /\ RunIdle("returned")
  /\ UNCHANGED <<apiVars, writer, stop, callerVars, respChan,
                 pending, inFlight, written, lastNil>>

\* case msg := <-nw.writer: the call of setNodeAnnotations begins.
RunReceive ==
  /\ AtSelect(runPc)
  /\ writer # << >>
  /\ msg' = Receive(writer)
  /\ writer' = AfterReceive(writer)
  /\ inFlight' = Append(inFlight, Receive(writer).id)
  /\ runPc' = "get"
  /\ attempt' = 1
  /\ UNCHANGED <<apiVars, stop, n, patchBytes, node, err, callerVars, respChan,
                 pending, written, lastNil, histVars>>

\* Mutant of CachedAfterMutation: f is applied to n itself, the object the
\* lister shares with its cache.
CachedMutatedInPlace(cached, m) == SetAnnotations(cached, m)

\* nodeClone := n.DeepCopy(); f(nodeClone): the object in the cache is left as
\* it was.
CachedAfterMutation(cached, m) == cached

\* One call of the function given to RetryOnConflict, up to the Patch:
\* lister.Get, json.Marshal, DeepCopy, f, json.Marshal, CreateTwoWayMergePatch.
RunGet ==
  /\ runPc = "get"
  /\ getCalls' = getCalls + 1
  /\ fetched' = cache
  /\ \/ \* lister.Get fails
        /\ UNCHANGED <<cache, n, patchBytes, node>>
        /\ Fail("ReadErr")
     \/ \* json.Marshal(n) fails
        /\ n' = Snapshot(attempt, n, cache)
        /\ UNCHANGED <<cache, patchBytes, node>>
        /\ Fail("SerializeErr")
     \/ \* f(nodeClone) assigns to an entry of a nil map
        /\ n' = Snapshot(attempt, n, cache)
        /\ MutationPanics(n', msg.annos)
        /\ runPc' = "panicked"
        /\ UNCHANGED <<cache, patchBytes, node, err>>
     \/ \* json.Marshal(nodeClone) or CreateTwoWayMergePatch fails
        /\ n' = Snapshot(attempt, n, cache)
        /\ ~MutationPanics(n', msg.annos)
        /\ cache' = CachedAfterMutation(cache, msg.annos)
        /\ UNCHANGED <<patchBytes, node>>
        /\ Fail("SerializeErr")
     \/ \* the patch is ready
        /\ n' = Snapshot(attempt, n, cache)
        /\ ~MutationPanics(n', msg.annos)
        /\ cache' = CachedAfterMutation(cache, msg.annos)
        /\ patchBytes' = CreateTwoWayMergePatch(n', SetAnnotations(n', msg.annos))
        /\ runPc' = "patch"
        /\ UNCHANGED <<node, err>>
  /\ UNCHANGED <<store, writer, stop, msg, attempt, callerVars, respChan,
                 pending, inFlight, written, lastNil, patchCalls, lastPatch>>

\* What client.Patch may return: the patched node, a conflict, another error.
PatchOutcomes == {"ok", "conflict", "error"}

\* The cause recorded for a failed Patch.
PatchCause(outcome) == IF outcome = "conflict" THEN "Conflict" ELSE "PatchErr"

\* Mutant of Retriable: every failed Patch is tried again.
RetriableAlways(outcome) == outcome # "ok"

\* RetryOnConflict's errors.IsConflict(err): only a conflict is tried again.
Retriable(outcome) == outcome = "conflict"

\* client.Patch(nodeName, types.StrategicMergePatchType, patchBytes) and what
\* RetryOnConflict does with its result.
RunPatch ==
  /\ runPc = "patch"
  /\ patchCalls' = patchCalls + 1
  /\ \E outcome \in PatchOutcomes :
       /\ lastPatch' = outcome
       /\ IF outcome = "ok"
          THEN \* the API server applies the patch
               /\ store' = ApplyPatch(store, patchBytes)
               /\ node' = store'
               /\ runPc' = "respond"
               /\ err' = Nil
               /\ UNCHANGED attempt
          ELSE IF Retriable(outcome) /\ MayRetry(attempt)
          THEN \* conflict, and RetryOnConflict calls the function again
               /\ node' = NoNode
               /\ attempt' = attempt + 1
               /\ runPc' = "get"
               /\ UNCHANGED <<store, err>>
          ELSE \* conflict with the steps used up, or any other error
               /\ node' = NoNode
               /\ Fail(PatchCause(outcome))
               /\ UNCHANGED <<store, attempt>>
  /\ UNCHANGED <<cache, writer, stop, msg, n, patchBytes, callerVars, respChan,
                 pending, inFlight, written, lastNil, fetched, getCalls>>

\* msg.responseChannel <- err
RunRespond ==
  /\ runPc = "respond"
  /\ CanRespond(respChan[msg.id])
  /\ respChan' = [respChan EXCEPT ![msg.id] = Append(@, err)]
  /\ written' = [written EXCEPT ![msg.id] = @ + 1]
  /\ lastNil' = IF err = Nil THEN msg.op ELSE "none"
  /\ pending' = Without(pending, msg.id)
  /\ inFlight' = Without(inFlight, msg.id)
  /\ RunIdle(AfterRespond)
  /\ UNCHANGED <<apiVars, writer, stop, callerVars>>

Run == RunStop \/ RunReceive \/ RunGet \/ RunPatch \/ RunRespond

Next ==
  \/ ExternalUpdate
  \/ CacheSync
  \/ CloseStop
  \/ \E c \in Callers : Call(c)
  \/ \E c \in Callers : Send(c)
  \/ \E c \in Callers : Return(c)
  \/ RunStop
  \/ RunReceive
  \/ RunGet
  \/ RunPatch
  \/ RunRespond

Spec == Init /\ [][Next]_vars

\* The goroutines are scheduled: Run and the callers take the steps they can
\* take.  Go's select picks among its ready cases at random, so a case that
\* is ready again and again is taken.
Fairness ==
  /\ WF_vars(RunReceive \/ RunGet \/ RunPatch \/ RunRespond)
  /\ SF_vars(RunStop)
  /\ \A c \in Callers : WF_vars(Send(c)) /\ WF_vars(Return(c))

FairSpec == Init /\ [][Next]_vars /\ Fairness

(* ------------------------------------------------------------------ *)
(* Properties                                                           *)
(* ------------------------------------------------------------------ *)

\* Run is inside the processing of a message.
Processing == runPc \in {"get", "patch", "respond"}

\* The annotations only this writer sets.
WriterKeys == {StateKey, CurrentConfigKey, SSHKey}

\* The ids of the messages in a buffer, in order.
Ids(q) == [i \in 1 .. Len(q) |-> q[i].id]

\* C1 -- Mutual exclusion: at most one request is received and not yet
\* answered at any instant; while Run processes a message that message is the
\* only such request, so its Patch calls come after the answer to every request
\* received before it; and the annotations of the writer change in the API
\* server only in a Patch step of Run for that one request.
C1_MutualExclusion ==
  /\ [](/\ Len(inFlight) <= 1
        /\ Processing => inFlight = <<msg.id>>
        /\ runPc \in {"select", "returned"} => inFlight = << >>)
  /\ [][(\E k \in WriterKeys : store'[k] # store[k])
          => runPc = "patch" /\ inFlight = <<msg.id>> /\ patchCalls' = patchCalls + 1]_vars

\* C1 witness: Run is in the Patch of a request while another request waits
\* in the buffer and an earlier one has been answered.
C1_Witness ==
  /\ runPc = "patch"
  /\ writer # << >>
  /\ \E c \in Callers : written[c] = 1

\* C2 -- The response channel of each request has been written at most once,
\* whatever the update returned, and never holds more than one value.
C2_WrittenAtMostOnce ==
  \A c \in Callers : written[c] <= 1 /\ Len(respChan[c]) <= written[c]

\* C2 witness: a request whose update ran out of retries has its one error
\* in its response channel while another request was answered with nil.
C2_Witness ==
  \E c, d \in Callers :
    /\ respChan[c] = <<UnableToUpdate(NoNode, "Conflict")>>
    /\ written[c] = 1
    /\ respChan[d] = <<Nil>>
    /\ written[d] = 1

\* C4 -- Whenever a Set* call is answered nil, the node in the API server
\* carries the annotation values the call requested, also when the snapshot
\* the lister returned lags behind the API server.
C4_NilMeansApplied ==
  (runPc = "respond" /\ err = Nil)
    => \A k \in DOMAIN msg.annos : store[k] = msg.annos[k]

\* C5 -- When SetDegraded and SetSSHAccessed are both answered nil, one right
\* after the other in either order, the node in the API server has
\* state=Degraded and the ssh marker=accessed.
C5_BothAnnotationsPresent ==
  (/\ runPc = "respond"
   /\ err = Nil
   /\ {msg.op, lastNil} = {"SetDegraded", "SetSSHAccessed"})
    => store[StateKey] = StateDegraded /\ store[SSHKey] = SSHAccessed

\* C6 -- Conflict retry: every attempt reads the snapshot again, and the patch
\* it sends is the diff between the snapshot of that attempt and the
\* annotations applied to that snapshot; a Patch that succeeds after fewer
\* than Steps conflicts makes the update return nil.
C6_ConflictRetry ==
  /\ runPc = "patch" =>
       /\ getCalls = attempt
       /\ patchCalls = attempt - 1
       /\ patchBytes = CreateTwoWayMergePatch(fetched, SetAnnotations(fetched, msg.annos))
  /\ (runPc = "respond" /\ lastPatch = "ok") =>
       /\ err = Nil
       /\ patchCalls = attempt
       /\ attempt <= Steps

\* C6 witness: the Patch succeeded on the last allowed attempt, after
\* Steps - 1 conflicts, and the update returns nil.
C6_Witness ==
  /\ runPc = "respond"
  /\ lastPatch = "ok"
  /\ attempt = Steps
  /\ getCalls = Steps
  /\ err = Nil

\* C7 -- Retry exhaustion: an update makes at most Steps Patch calls; when
\* they all conflict it stops after exactly Steps of them, makes no further
\* call, and the error for the caller is not nil.
C7_RetryExhaustion ==
  /\ patchCalls <= Steps
  /\ getCalls <= Steps
  /\ (lastPatch = "conflict" /\ patchCalls = Steps) =>
       /\ runPc = "respond"
       /\ getCalls = Steps
       /\ err # Nil
       /\ err.cause = "Conflict"
  /\ (runPc = "respond" /\ err.cause = "Conflict") =>
       /\ lastPatch = "conflict"
       /\ patchCalls = Steps

\* C7 witness: all Steps Patch calls conflicted and Run is about to answer.
C7_Witness ==
  /\ runPc = "respond"
  /\ lastPatch = "conflict"
  /\ patchCalls = Steps
  /\ err = UnableToUpdate(NoNode, "Conflict")

\* C3 -- Every request a Set* call has submitted is eventually answered and
\* its caller returns, unless the stop signal is raised.
C3_EveryRequestAnswered ==
  \A c \in Callers :
    (callerPc[c] \in {"send", "wait"}) ~> (callerPc[c] = "returned" \/ stop)

\* C8 as stated -- A caller blocked in its send on a full channel is
\* unblocked once the stop signal has been raised.
C8_UnblockedOnShutdown ==
  \A c \in Callers :
    (callerPc[c] = "send" /\ stop) ~> (callerPc[c] # "send")

\* C8 as amended -- A caller blocked in its send leaves the send only by
\* putting its message in a buffer that has room; the stop signal does not end
\* the wait: once Run has returned and the buffer is full it stays full and
\* the caller stays in the send.
C8_BlockedUntilRoom ==
  [][\A c \in Callers :
       callerPc[c] = "send" =>
         /\ callerPc'[c] # "send" =>
               /\ Len(writer) < defaultWriterQueue
               /\ writer' = Append(writer, callerMsg[c])
         /\ (runPc = "returned" /\ Len(writer) = defaultWriterQueue) =>
               /\ callerPc'[c] = "send"
               /\ writer' = writer]_vars

\* C8 witness: Run has returned on the stop signal, the buffer is full and a
\* caller is blocked in its send.
C8_Witness ==
  /\ runPc = "returned"
  /\ stop
  /\ Len(writer) = defaultWriterQueue
  /\ \E c \in Callers : callerPc[c] = "send"

\* C9 -- FIFO: the buffer holds the sent and unreceived requests in the order
\* they were sent, and the request Run processes is the oldest sent request
\* that has no answer yet, so every request sent before it has been answered.
C9_Fifo ==
  /\ Ids(writer) = SubSeq(pending, Len(inFlight) + 1, Len(pending))
  /\ Processing => pending # << >> /\ msg.id = Head(pending)

\* C9 witness: Run patches for the oldest request while two later requests
\* wait in the buffer.
C9_Witness ==
  /\ runPc = "patch"
  /\ Len(writer) = 2
  /\ Len(pending) = 3

\* C10 -- Run leaves its cycle only on the stop signal: it is never ended by
\* the processing of a request.
C10_LoopEndsOnlyOnStop ==
  /\ runPc # "panicked"
  /\ runPc = "returned" => stop

\* C11 -- SetWorking on a node whose snapshot has no state annotation, the
\* node without any annotation included, completes: processing it never ends
\* Run, and when it is answered with nil the node's state annotation in the
\* store is Working.
C11_WorkingFromNoState ==
  (msg.op = "SetWorking" /\ getCalls > 0 /\ fetched[StateKey] = Absent) =>
    /\ runPc # "panicked"
    /\ (runPc = "respond" /\ err = Nil) => store[StateKey] = StateWorking

\* C12 -- Idempotence: when the request answered last was the same operation
\* and was answered nil, the successful Patch of the second request changes
\* nothing: every annotation of the store has after it the value it had after
\* the first request.
C12_Idempotent ==
  [][(runPc = "patch" /\ lastNil = msg.op /\ runPc' = "respond" /\ err' = Nil) =>
       \A k \in DOMAIN msg.annos : store'[k] = store[k]]_vars

\* C13 as stated -- a failed lister.Get ends the update after exactly one Get
\* and no Patch; a Patch that fails with an error other than a conflict ends
\* it with no further Get or Patch; a non-nil error goes to the caller.
C13_OneGetNoPatch ==
  /\ (runPc = "respond" /\ err.cause = "ReadErr") =>
       getCalls = 1 /\ patchCalls = 0 /\ err # Nil
  /\ lastPatch = "error" => runPc = "respond" /\ err.cause = "PatchErr" /\ err # Nil

\* C13 -- Only conflicts are retried: a failed lister.Get is the last call of
\* the update (one Get and no Patch when it is the first attempt's, otherwise
\* one Patch fewer than Gets, all of them conflicts); a Patch that fails with
\* an error other than a conflict is the last call of the update; a further
\* attempt is made only after a conflict; in both cases the error written to
\* the caller's response channel is non-nil.
C13_OnlyConflictsRetried ==
  /\ [](/\ (runPc = "respond" /\ err.cause = "ReadErr") =>
             /\ getCalls = attempt
             /\ patchCalls = attempt - 1
             /\ attempt = 1 \/ lastPatch = "conflict"
             /\ err # Nil
        /\ lastPatch = "error" =>
             /\ runPc = "respond"
             /\ err.cause = "PatchErr"
             /\ getCalls = attempt
             /\ patchCalls = attempt
             /\ err # Nil
        /\ (Processing /\ attempt > 1) => lastPatch = "conflict" \/ runPc = "respond")
  /\ [][(runPc = "respond" /\ err.cause \in {"ReadErr", "PatchErr"} /\ runPc' # "respond") =>
          respChan'[msg.id] = <<err>> /\ err # Nil]_vars

\* C13 witness: the second attempt's lister.Get has failed after the first
\* attempt's Patch met a conflict.
C13_Witness ==
  /\ runPc = "respond"
  /\ err.cause = "ReadErr"
  /\ getCalls = 2
  /\ patchCalls = 1

\* C14 -- The error returned when the retries are used up names the node that
\* was to be updated and carries the last conflict.
C14_ExhaustionNamesNode ==
  (runPc = "respond" /\ err.kind = "unableToUpdate" /\ patchCalls = Steps
     /\ lastPatch = "conflict") =>
    err.subject = NodeName /\ err.cause = "Conflict"

\* C15 -- A received request has its result written before Run ends: Run is
\* never over while a received request has no answer, whether or not stop was
\* raised while the update was in flight.
C15_AnsweredBeforeExit ==
  (runPc \in {"returned", "panicked"}) => inFlight = << >>

\* C16 -- Once stop is raised Run eventually returns, whatever the request
\* channel holds; after Run has returned no Get or Patch is issued, no
\* annotation of the writer changes in the store and no response is written.
C16_RunReturnsAfterStop ==
  /\ stop ~> (runPc = "returned")
  /\ [][runPc = "returned" =>
          /\ UNCHANGED <<getCalls, patchCalls, written>>
          /\ \A k \in WriterKeys : store'[k] = store[k]]_vars

\* C17 -- Requests in the channel when Run has returned are abandoned: none
\* is ever received (the channel keeps what it holds), no Get or Patch is
\* issued, no response is written, and a caller waiting for a response that
\* has not been written keeps waiting.
C17_Abandoned ==
  [][runPc = "returned" =>
       /\ runPc' = "returned"
       /\ Len(writer') >= Len(writer)
       /\ SubSeq(writer', 1, Len(writer)) = writer
       /\ UNCHANGED <<getCalls, patchCalls, written, inFlight>>
       /\ \A c \in Callers :
            /\ Len(respChan'[c]) <= Len(respChan[c])
            /\ (callerPc[c] = "wait" /\ respChan[c] = << >>) => callerPc'[c] = "wait"]_vars

\* C17 witness: Run has returned and a caller waits for the response to a
\* request that is still in the channel.
C17_Witness ==
  /\ runPc = "returned"
  /\ writer # << >>
  /\ callerPc[Head(writer).id] = "wait"
  /\ respChan[Head(writer).id] = << >>
  /\ written[Head(writer).id] = 0

\* C18 -- Frame: a successful Patch changes in the store only annotations the
\* request names; every other annotation keeps the value the store had, also
\* one that was changed in the store after the snapshot was read.
C18_Frame ==
  [][(runPc = "patch" /\ runPc' = "respond" /\ err' = Nil) =>
       \A k \in Keys \ DOMAIN msg.annos : store'[k] = store[k]]_vars

\* C18 witness: a non-empty patch was applied and the store keeps a desired
\* config that the snapshot the patch was computed from does not have.
C18_Witness ==
  /\ runPc = "respond"
  /\ err = Nil
  /\ patchBytes # EmptyPatch
  /\ n[DesiredConfigKey] = Absent
  /\ store[DesiredConfigKey] # Absent

\* C19 -- updateNodeRetry never changes the object held by the lister's cache:
\* the cache changes only when it is refreshed from the store, never in a step
\* that calls Get or Patch.
C19_CacheNotMutated ==
  [][cache' # cache => (cache' = store /\ UNCHANGED <<getCalls, patchCalls>>)]_vars

\* C19 witness: the mutation changed the clone (the patch is not empty) and
\* the cache still holds the snapshot as it was read.
C19_Witness ==
  /\ runPc = "patch"
  /\ patchBytes # EmptyPatch
  /\ cache = n
  /\ SetAnnotations(n, msg.annos) # cache

\* C20 -- The write of Run to the response channel never blocks: whenever Run
\* is about to write, the channel of the request has room, nothing having been
\* written to it before.
C20_RespondNeverBlocks ==
  runPc = "respond" => CanRespond(respChan[msg.id]) /\ written[msg.id] = 0

\* C20 witness: Run is about to write the response of a later request while
\* the response of an earlier one has not been read by its caller.
C20_Witness ==
  /\ runPc = "respond"
  /\ \E c \in Callers : c # msg.id /\ callerPc[c] = "wait" /\ respChan[c] # << >>

====
